---- MODULE Spec2Model ----
(***************************************************************************)
(* NetworkLib: length-prefixed messages over TCP (Server) and the frame    *)
(* codec (Utils.prepare_message, Utils.read_message_length).               *)
(*                                                                         *)
(* A text is a sequence of Unicode code points, a byte string a sequence   *)
(* of numbers 0..255.                                                      *)
(***************************************************************************)
EXTENDS Integers, Sequences, FiniteSets, TLC

(***************************************************************************)
(* Bounds of the model.                                                    *)
(***************************************************************************)
\* longest text given to the codec
MaxLen == 3
\* widest header given to the codec (prepend_bytes is 0..MaxHeader)
MaxHeader == 2

\* clients that may connect to the server, each from its own address
NumPeers == 2
\* frames the clients send, all together
MaxFrames == 1

\* frames the server sends to a TCP client
MaxClientFrames == 3
\* threads a datagram endpoint creates in its life
MaxThreads == 2
\* datagrams sent to the datagram endpoint
MaxDatagrams == 2
\* largest port the datagram endpoint is bound to (a port is 1..MaxPort)
MaxPort == 2

\* the header width the server is constructed with (Server.__init__:
\* prepend_bytes_size) and its clients frame their texts with
prepend_bytes_size == 2

\* the code points texts are made of: "a" (1 byte in UTF-8), "e acute"
\* (2 bytes) and the euro sign (3 bytes)
Chars == {97, 233, 8364}

RECURSIVE Pow(_, _)
Pow(b, e) == IF e = 0 THEN 1 ELSE b * Pow(b, e - 1)

\* all sequences over S of length at most n
RECURSIVE SeqsUpTo(_, _)
SeqsUpTo(S, n) ==
    IF n = 0 THEN {<<>>}
    ELSE LET shorter == SeqsUpTo(S, n - 1)
         IN  shorter \cup {Append(s, x) : s \in {t \in shorter : Len(t) = n - 1}, x \in S}

Texts == SeqsUpTo(Chars, MaxLen)

(***************************************************************************)
(* Python built-ins the library calls.                                     *)
(***************************************************************************)
\* str.encode("UTF-8") of one code point
EncodeChar(cp) ==
    IF cp < 128 THEN <<cp>>
    ELSE IF cp < 2048 THEN <<192 + (cp \div 64), 128 + (cp % 64)>>
    ELSE <<224 + (cp \div 4096), 128 + ((cp \div 64) % 64), 128 + (cp % 64)>>

\* str.encode("UTF-8")
RECURSIVE Utf8Encode(_)
Utf8Encode(text) ==
    IF text = <<>> THEN <<>>
    ELSE EncodeChar(Head(text)) \o Utf8Encode(Tail(text))

\* what a call gives: the value it returned, or the exception it raised
Returned(v) == [raised |-> "", value |-> v]
Raised(e) == [raised |-> e, value |-> <<>>]

IsContinuation(b) == b >= 128 /\ b < 192

\* bytes.decode("UTF-8"): the text, or UnicodeDecodeError when the bytes are
\* no well-formed UTF-8 (a truncated or stray multi-byte sequence)
RECURSIVE Utf8Decode(_)
Utf8Decode(bytes) ==
    IF bytes = <<>> THEN Returned(<<>>)
    ELSE LET b1 == bytes[1]
             n  == IF b1 < 128 THEN 1
                   ELSE IF b1 >= 194 /\ b1 < 224 THEN 2
                   ELSE IF b1 >= 224 /\ b1 < 240 THEN 3
                   ELSE 0
         IN  IF n = 0 \/ Len(bytes) < n THEN Raised("UnicodeDecodeError")
             ELSE IF \E i \in 2..n : ~IsContinuation(bytes[i]) THEN Raised("UnicodeDecodeError")
             ELSE LET cp == IF n = 1 THEN b1
                            ELSE IF n = 2 THEN (b1 - 192) * 64 + (bytes[2] - 128)
                            ELSE (b1 - 224) * 4096 + (bytes[2] - 128) * 64 + (bytes[3] - 128)
                      rest == Utf8Decode(SubSeq(bytes, n + 1, Len(bytes)))
                  IN  IF n = 3 /\ (cp < 2048 \/ (cp >= 55296 /\ cp < 57344))
                      THEN Raised("UnicodeDecodeError")
                      ELSE IF rest.raised # "" THEN rest
                      ELSE Returned(<<cp>> \o rest.value)

\* int.to_bytes(length, byteorder="big"): OverflowError when n needs more bytes
RECURSIVE ToBytesBig(_, _)
ToBytesBig(n, length) ==
    IF n >= Pow(256, length) THEN Raised("OverflowError")
    ELSE IF length = 0 THEN Returned(<<>>)
    ELSE Returned(Append(ToBytesBig(n \div 256, length - 1).value, n % 256))

\* int.from_bytes(bytes, byteorder="big")
RECURSIVE FromBytesBig(_)
FromBytesBig(bytes) ==
    IF bytes = <<>> THEN 0
    ELSE FromBytesBig(SubSeq(bytes, 1, Len(bytes) - 1)) * 256 + bytes[Len(bytes)]

\* bytes[:n]
Prefix(bytes, n) == SubSeq(bytes, 1, IF n < Len(bytes) THEN n ELSE Len(bytes))
\* bytes[n:]
Suffix(bytes, n) == SubSeq(bytes, n + 1, Len(bytes))

(***************************************************************************)
(* Utils: the frame codec.                                                 *)
(***************************************************************************)
\* the header is made from the number of characters, not of bytes
prepare_message_chars(message, prepend_bytes) ==
    LET message_bytes  == Utf8Encode(message)
        message_length == ToBytesBig(Len(message), prepend_bytes)
    IN  IF message_length.raised # "" THEN message_length
        ELSE Returned(message_length.value \o message_bytes)

prepare_message(message, prepend_bytes) ==
    LET message_bytes  == Utf8Encode(message)
        message_length == ToBytesBig(Len(message_bytes), prepend_bytes)
    IN  IF message_length.raised # "" THEN message_length
        ELSE Returned(message_length.value \o message_bytes)

read_message_length(prepared_message, prepend_bytes) ==
    FromBytesBig(Prefix(prepared_message, prepend_bytes))

(***************************************************************************)
(* TCP.Server and its surroundings.                                        *)
(*                                                                         *)
(* A client is known by its address; socket.accept() gives the pair        *)
(* (connection, address), and since no two live connections share an       *)
(* address the connection of client p is written p as well.                *)
(***************************************************************************)
Peers == 1..NumPeers


\* the texts sent to a TCP.Client and through a UDP.Messages
SomeTexts == {<<97>>, <<233>>}

\* the text the server's clients and the server's application send: one that
\* takes more than one byte in UTF-8
ServerTexts == {<<233>>}

VARIABLES
    \* the codec on its own
    c_message,      \* the text given to prepare_message
    c_prepend,      \* prepend_bytes, the header width
    c_step,         \* "start", "prepared" (prepare_message was called), "read"
    c_frame,        \* what prepare_message gave
    c_length,       \* what read_message_length returned
    \* the network and the clients
    client,         \* per client: "idle", "connected", "closed" (it closed its
                    \* end), "reset" (it closed, the connection was reset and
                    \* the server's socket has not reported the error yet)
    backlog,        \* connections the listening socket holds for accept()
    wire,           \* per client: bytes it sent that have not reached the server
    rcvbuf,         \* per client: bytes that reached the server's socket, unread
    client_sent,    \* per client: the texts it sent, in order
    \* Server
    listening,      \* _socket.listen() was called
    receive_client_requests_thread,     \* "None", or the thread: "alive", "exited"
    accept_pc,      \* where the accept loop is: "listen", "check", "select"
    new_client_requests,                \* queue of accepted (connection, address)
    receive_client_requests_stop_event,
    receive_clients_messages_threads,   \* None, or the addresses it has a thread for
    rx,             \* per client: its receive thread and the thread's locals
    ipv4_to_connection,                 \* the addresses registered, in insertion order
    received_client_messages,           \* address -> queue of texts
    receive_client_messages_stop_event,
    \* the application thread
    app_pc,         \* "idle", or the call it is inside
    new_connections,                    \* get_new_client_connections: its local list
    ret,            \* what the call that completed last did, if it did not
                    \* just return None: the method, the exception it raised, the
                    \* value it returned, and for the send methods the byte
                    \* strings it wrote to each client's socket and the
                    \* addresses send_message_to_all called send_message_to for
    \* history
    accepted,       \* the connections accept() returned, in order
    drained,        \* what the calls of get_new_client_connections returned, joined
    got,            \* per client: the texts get_messages_from and
                    \* get_all_messages returned for it, joined
    \* TCP.Client
    cl_sent,        \* the texts the server sent to the client, framed, in order
    cl_wire,        \* bytes the server sent that have not reached the client
    cl_rcvbuf,      \* bytes that reached the client's socket, unread
    cl_receive_messages_thread,         \* "None", or the thread: "created", "alive"
    cl_rx,          \* the thread's position, its locals, the exception that ended it
    cl_received_messages,               \* queue of texts
    cl_stop_event,
    cl_server_closed,                   \* the server closed its end of the connection
    cl_ret,         \* what the client's last call returned
    \* UDP.Messages
    m_port,         \* self.port
    m_socket,       \* "open", "closed"
    m_inbox,        \* datagrams that reached the socket, unread
    m_sent,         \* the datagrams sent to the endpoint, in order of arrival
    m_receive_messages_thread,          \* 0 (None), or the number of the thread
    m_threads,      \* per thread the endpoint created: its state, position and
                    \* the exception that ended it
    m_received_messages,                \* queue of (message, address)
    m_stop_event,
    m_app_pc,       \* "idle", or the call the application is inside
    m_messages,     \* get_messages: its local list
    m_ret,          \* what the endpoint's last call did, if not just return None
    m_got           \* what the calls of get_messages returned, joined

codecVars == <<c_message, c_prepend, c_step, c_frame, c_length>>
netVars == <<client, backlog, wire, rcvbuf, client_sent>>
acceptVars == <<listening, receive_client_requests_thread, accept_pc,
                new_client_requests, receive_client_requests_stop_event, accepted>>
rxVars == <<receive_clients_messages_threads, rx, received_client_messages,
            receive_client_messages_stop_event>>
appVars == <<app_pc, new_connections, ret, drained, got>>
serverVars == <<netVars, acceptVars, rxVars, ipv4_to_connection, appVars>>
clientVars == <<cl_sent, cl_wire, cl_rcvbuf, cl_receive_messages_thread, cl_rx,
                cl_received_messages, cl_stop_event, cl_server_closed, cl_ret>>
messagesNet == <<m_port, m_socket, m_inbox, m_sent>>
messagesThreads == <<m_receive_messages_thread, m_threads, m_stop_event>>
messagesApp == <<m_app_pc, m_messages, m_ret, m_got>>
messagesVars == <<messagesNet, messagesThreads, m_received_messages, messagesApp>>
vars == <<codecVars, serverVars, clientVars, messagesVars>>

\* a dict as the sequence of its keys in insertion order
Keys(dict) == {dict[i] : i \in 1..Len(dict)}
\* dict[key] = value: a new key goes last, a known key keeps its place
DictSet(dict, key) == IF key \in Keys(dict) THEN dict ELSE Append(dict, key)

\* a thread that does not exist
NoThread == [state |-> "absent", pc |-> "check", length_bytes |-> <<>>,
             message_length |-> 0, message_bytes |-> <<>>, raised |-> ""]
\* threading.Thread(...).start()
StartedThread == [NoThread EXCEPT !.state = "alive"]
\* the thread ended: by returning, or by the exception that left its target
EndedThread(e) == [NoThread EXCEPT !.state = "exited", !.raised = e]

\* the last call returned None (or there has been no call)
NoCall == [op |-> "", raised |-> "", value |-> <<>>, attempted |-> <<>>,
           written |-> [p \in Peers |-> <<>>]]
\* a call of op
Void(op) == [NoCall EXCEPT !.op = op]

CodecIdle ==
    /\ c_message = <<>>
    /\ c_prepend = 0
    /\ c_step = "start"
    /\ c_frame = Returned(<<>>)
    /\ c_length = 0

\* Server.__init__, no client connected
ServerInit ==
    /\ client = [p \in Peers |-> "idle"]
    /\ backlog = <<>>
    /\ wire = [p \in Peers |-> <<>>]
    /\ rcvbuf = [p \in Peers |-> <<>>]
    /\ client_sent = [p \in Peers |-> <<>>]
    /\ listening = FALSE
    /\ receive_client_requests_thread = "None"
    /\ accept_pc = "listen"
    /\ new_client_requests = <<>>
    /\ receive_client_requests_stop_event = FALSE
    /\ receive_clients_messages_threads = [none |-> TRUE, keys |-> <<>>]
    /\ rx = [p \in Peers |-> NoThread]
    /\ ipv4_to_connection = <<>>
    /\ received_client_messages = <<>>
    /\ receive_client_messages_stop_event = FALSE
    /\ app_pc = "idle"
    /\ new_connections = <<>>
    /\ ret = NoCall
    /\ accepted = <<>>
    /\ drained = <<>>
    /\ got = [p \in Peers |-> <<>>]

\* the locals of the client's receive thread before its first turn
NoTurn == [pc |-> "check", message_length |-> 0, message_bytes |-> <<>>, raised |-> ""]

\* Client.__init__
ClientInit ==
    /\ cl_rx = NoTurn
    /\ cl_stop_event = FALSE
    /\ cl_server_closed = FALSE
    /\ cl_sent = <<>>
    /\ cl_wire = <<>>
    /\ cl_rcvbuf = <<>>
    /\ cl_receive_messages_thread = "None"
    /\ cl_received_messages = <<>>
    /\ cl_ret = "None"

\* a thread of the endpoint that does not exist
NoLoop == [state |-> "absent", pc |-> "check", raised |-> ""]
\* the endpoint's last call returned None (or there has been no call)
NoMessagesCall == [op |-> "", raised |-> "", value |-> <<>>, written |-> <<>>, flag |-> ""]

\* Messages.__init__ with the given port
MessagesInit(port) ==
    /\ m_port = port
    /\ m_socket = "open"
    /\ m_inbox = <<>>
    /\ m_sent = <<>>
    /\ m_receive_messages_thread = 0
    /\ m_threads = [t \in 1..MaxThreads |-> NoLoop]
    /\ m_received_messages = <<>>
    /\ m_stop_event = FALSE
    /\ m_app_pc = "idle"
    /\ m_messages = <<>>
    /\ m_ret = NoMessagesCall
    /\ m_got = <<>>

Init == ServerInit /\ CodecIdle /\ ClientInit /\ MessagesInit(MaxPort)

(***************************************************************************)
(* The clients and the network.                                            *)
(***************************************************************************)
\* a client connects: the listening socket queues the connection
ClientConnect(p) ==
    /\ listening
    /\ client[p] = "idle"
    /\ client' = [client EXCEPT ![p] = "connected"]
    /\ backlog' = Append(backlog, p)
    /\ UNCHANGED <<wire, rcvbuf, client_sent, acceptVars, rxVars,
                   ipv4_to_connection, appVars, codecVars, clientVars, messagesVars>>

\* the number of entries of all f[p], from client p on
RECURSIVE Total(_, _)
Total(f, p) == IF p > NumPeers THEN 0 ELSE Len(f[p]) + Total(f, p + 1)

\* a client sends one text, framed with the server's header width
ClientSend(p, text) ==
    /\ client[p] = "connected"
    /\ Total(client_sent, 1) < MaxFrames
    /\ wire' = [wire EXCEPT ![p] = @ \o prepare_message(text, prepend_bytes_size).value]
    /\ client_sent' = [client_sent EXCEPT ![p] = Append(@, text)]
    /\ UNCHANGED <<client, backlog, rcvbuf, acceptVars, rxVars,
                   ipv4_to_connection, appVars, codecVars, clientVars, messagesVars>>

\* the next k bytes in flight reach the server's socket
Deliver(p, k) ==
    /\ k \in 1..Len(wire[p])
    /\ rcvbuf' = [rcvbuf EXCEPT ![p] = @ \o SubSeq(wire[p], 1, k)]
    /\ wire' = [wire EXCEPT ![p] = Suffix(@, k)]
    /\ UNCHANGED <<client, backlog, client_sent, acceptVars, rxVars,
                   ipv4_to_connection, appVars, codecVars, clientVars, messagesVars>>

\* some of the bytes in flight reach the server's socket
DeliverSome(p) == \E k \in 1..Len(wire[p]) : Deliver(p, k)

\* a client closes its end of the connection
ClientClose(p) ==
    /\ client[p] = "connected"
    /\ client' = [client EXCEPT ![p] = "closed"]
    /\ UNCHANGED <<backlog, wire, rcvbuf, client_sent, acceptVars, rxVars,
                   ipv4_to_connection, appVars, codecVars, clientVars, messagesVars>>

\* a client closes and the connection is reset (it closed with bytes of the
\* server unread, or without lingering)
ClientReset(p) ==
    /\ client[p] = "connected"
    /\ client' = [client EXCEPT ![p] = "reset"]
    /\ UNCHANGED <<backlog, wire, rcvbuf, client_sent, acceptVars, rxVars,
                   ipv4_to_connection, appVars, codecVars, clientVars, messagesVars>>

\* the client closed and everything it sent has been read: recv() gives b""
AtEndOfStream(p) == client[p] = "closed" /\ wire[p] = <<>> /\ rcvbuf[p] = <<>>

\* the connection was reset and everything that arrived before has been read:
\* the next recv() raises
ResetPending(p) == client[p] = "reset" /\ wire[p] = <<>> /\ rcvbuf[p] = <<>>

\* select.select([connection], [], [], timeout) reports the connection
Readable(p) == rcvbuf[p] # <<>> \/ AtEndOfStream(p) \/ ResetPending(p)

\* connection.recv(bufsize) on a readable connection: at most bufsize of the
\* bytes that have arrived; ConnectionResetError when the connection was reset
\* and nothing is left to read.  recv(0) returns b"" without asking the socket.
Recv(p, bufsize) ==
    IF bufsize > 0 /\ ResetPending(p)
    THEN Raised("ConnectionResetError")
    ELSE Returned(Prefix(rcvbuf[p], bufsize))

\* the socket reports an error once: afterwards the connection is a closed one
ErrorReported(p) == [client EXCEPT ![p] = "closed"]

(***************************************************************************)
(* Server: the accept loop.                                                *)
(***************************************************************************)
\* _accept_new_client_connections: self._socket.listen(backlog)
AcceptListen ==
    /\ receive_client_requests_thread = "alive"
    /\ accept_pc = "listen"
    /\ listening' = TRUE
    /\ accept_pc' = "check"
    /\ UNCHANGED <<receive_client_requests_thread, new_client_requests,
                   receive_client_requests_stop_event, accepted,
                   netVars, rxVars, ipv4_to_connection, appVars, codecVars, clientVars, messagesVars>>

\* while not stop_event.is_set()
AcceptCheck ==
    /\ receive_client_requests_thread = "alive"
    /\ accept_pc = "check"
    /\ IF receive_client_requests_stop_event
       THEN /\ receive_client_requests_thread' = "exited"
            /\ UNCHANGED accept_pc
       ELSE /\ accept_pc' = "select"
            /\ UNCHANGED receive_client_requests_thread
    /\ UNCHANGED <<listening, new_client_requests, receive_client_requests_stop_event,
                   accepted, netVars, rxVars, ipv4_to_connection, appVars, codecVars, clientVars, messagesVars>>

\* the accept loop registers the connection itself
AcceptAndRegister ==
    /\ receive_client_requests_thread = "alive"
    /\ accept_pc = "select"
    /\ backlog # <<>>
    /\ backlog' = Tail(backlog)
    /\ ipv4_to_connection' = DictSet(ipv4_to_connection, Head(backlog))
    /\ accepted' = Append(accepted, Head(backlog))
    /\ accept_pc' = "check"
    /\ UNCHANGED <<client, wire, rcvbuf, client_sent, listening,
                   receive_client_requests_thread, receive_client_requests_stop_event,
                   new_client_requests, rxVars, appVars, codecVars, clientVars, messagesVars>>

\* select reports the listening socket: accept() one connection and put it
AcceptConnection ==
    /\ receive_client_requests_thread = "alive"
    /\ accept_pc = "select"
    /\ backlog # <<>>
    /\ backlog' = Tail(backlog)
    /\ new_client_requests' = Append(new_client_requests, Head(backlog))
    /\ accepted' = Append(accepted, Head(backlog))
    /\ accept_pc' = "check"
    /\ UNCHANGED <<client, wire, rcvbuf, client_sent, listening,
                   receive_client_requests_thread, receive_client_requests_stop_event,
                   rxVars, ipv4_to_connection, appVars, codecVars, clientVars, messagesVars>>

\* select times out after connection_accept_timeout
AcceptTimeout ==
    /\ receive_client_requests_thread = "alive"
    /\ accept_pc = "select"
    /\ backlog = <<>>
    /\ accept_pc' = "check"
    /\ UNCHANGED <<listening, receive_client_requests_thread, new_client_requests,
                   receive_client_requests_stop_event, accepted,
                   netVars, rxVars, ipv4_to_connection, appVars, codecVars, clientVars, messagesVars>>

\* Server.listen_for_client_connections
listen_for_client_connections ==
    /\ app_pc = "idle"
    /\ receive_client_messages_stop_event' = FALSE
    /\ IF receive_client_requests_thread = "None"
       THEN /\ receive_client_requests_thread' = "alive"
            /\ accept_pc' = "listen"
       ELSE UNCHANGED <<receive_client_requests_thread, accept_pc>>
    /\ ret' = NoCall
    /\ UNCHANGED <<listening, new_client_requests, receive_client_requests_stop_event,
                   accepted, receive_clients_messages_threads, rx,
                   received_client_messages, netVars, ipv4_to_connection,
                   app_pc, new_connections, drained, got, codecVars, clientVars, messagesVars>>

\* the call sets the stop event of the receive loops as well
stop_listening_for_everything ==
    /\ app_pc = "idle"
    /\ IF receive_client_requests_thread # "None"
       THEN /\ receive_client_requests_stop_event' = TRUE
            /\ receive_client_messages_stop_event' = TRUE
            /\ app_pc' = "join_client_requests"
            /\ UNCHANGED ret
       ELSE /\ ret' = NoCall
            /\ UNCHANGED <<receive_client_requests_stop_event,
                           receive_client_messages_stop_event, app_pc>>
    /\ UNCHANGED <<listening, receive_client_requests_thread, accept_pc,
                   new_client_requests, accepted, netVars,
                   receive_clients_messages_threads, rx, received_client_messages,
                   ipv4_to_connection, new_connections, drained, got, codecVars, clientVars, messagesVars>>

\* Server.stop_listening_for_client_connections, up to the join
stop_listening_for_client_connections ==
    /\ app_pc = "idle"
    /\ IF receive_client_requests_thread # "None"
       THEN /\ receive_client_requests_stop_event' = TRUE
            /\ app_pc' = "join_client_requests"
            /\ UNCHANGED ret
       ELSE /\ ret' = NoCall
            /\ UNCHANGED <<receive_client_requests_stop_event, app_pc>>
    /\ UNCHANGED <<listening, receive_client_requests_thread, accept_pc,
                   new_client_requests, accepted, netVars, rxVars,
                   ipv4_to_connection, new_connections, drained, got, codecVars, clientVars, messagesVars>>

\* self._receive_client_requests_thread.join() returns
JoinClientRequestsThread ==
    /\ app_pc = "join_client_requests"
    /\ receive_client_requests_thread = "exited"
    /\ app_pc' = "idle"
    /\ ret' = NoCall
    /\ UNCHANGED <<netVars, acceptVars, rxVars, ipv4_to_connection,
                   new_connections, drained, got, codecVars, clientVars, messagesVars>>

\* the loop of get_new_client_connections reads the entries in the other order
TakeNewest(queue) ==
    [connection |-> queue[Len(queue)], rest |-> SubSeq(queue, 1, Len(queue) - 1)]

\* queue.Queue.get(): the oldest entry
QueueGet(queue) == [connection |-> Head(queue), rest |-> Tail(queue)]

\* Server.get_new_client_connections: new_connections = []
get_new_client_connections ==
    /\ app_pc = "idle"
    /\ app_pc' = "get_new_client_connections"
    /\ new_connections' = <<>>
    /\ UNCHANGED <<netVars, acceptVars, rxVars, ipv4_to_connection, ret, drained,
                   got, codecVars, clientVars, messagesVars>>

\* one turn of its loop: get an entry, note the address, register the connection
GetNewClientConnection ==
    /\ app_pc = "get_new_client_connections"
    /\ new_client_requests # <<>>
    /\ LET entry == QueueGet(new_client_requests)
       IN  /\ new_client_requests' = entry.rest
           /\ new_connections' = Append(new_connections, entry.connection)
           /\ ipv4_to_connection' = DictSet(ipv4_to_connection, entry.connection)
    /\ UNCHANGED <<listening, receive_client_requests_thread, accept_pc,
                   receive_client_requests_stop_event, accepted, netVars, rxVars,
                   app_pc, ret, drained, got, codecVars, clientVars, messagesVars>>

\* the queue is empty: return new_connections
ReturnNewClientConnections ==
    /\ app_pc = "get_new_client_connections"
    /\ new_client_requests = <<>>
    /\ app_pc' = "idle"
    /\ ret' = [Void("get_new_client_connections") EXCEPT !.value = new_connections]
    /\ drained' = drained \o new_connections
    /\ new_connections' = <<>>
    /\ UNCHANGED <<netVars, acceptVars, rxVars, ipv4_to_connection, got, codecVars, clientVars, messagesVars>>

(***************************************************************************)
(* Server: the receive loops, one thread per client.                       *)
(***************************************************************************)
\* _receive_messages_from_client: while not stop_event.is_set()
RxCheck(p) ==
    /\ rx[p].state = "alive"
    /\ rx[p].pc = "check"
    /\ rx' = [rx EXCEPT ![p] = IF receive_client_messages_stop_event
                               THEN EndedThread("")
                               ELSE [@ EXCEPT !.pc = "select"]]
    /\ UNCHANGED <<receive_clients_messages_threads, received_client_messages,
                   receive_client_messages_stop_event, netVars, acceptVars,
                   ipv4_to_connection, appVars, codecVars, clientVars, messagesVars>>

\* select times out after receive_messages_timeout: nothing to read
RxTimeout(p) ==
    /\ rx[p].state = "alive"
    /\ rx[p].pc = "select"
    /\ ~Readable(p)
    /\ rx' = [rx EXCEPT ![p].pc = "check"]
    /\ UNCHANGED <<receive_clients_messages_threads, received_client_messages,
                   receive_client_messages_stop_event, netVars, acceptVars,
                   ipv4_to_connection, appVars, codecVars, clientVars, messagesVars>>

\* select reports the connection:
\* message_length = int.from_bytes(connection.recv(self.prepend_bytes_size), "big")
RxRecvLength(p) ==
    /\ rx[p].state = "alive"
    /\ rx[p].pc = "select"
    /\ Readable(p)
    /\ LET length_bytes == Recv(p, prepend_bytes_size)
       IN  IF length_bytes.raised # ""
           THEN /\ rx' = [rx EXCEPT ![p] = EndedThread(length_bytes.raised)]
                /\ client' = ErrorReported(p)
                /\ UNCHANGED rcvbuf
           ELSE /\ rx' = [rx EXCEPT ![p] =
                              [@ EXCEPT !.pc = "recv_message",
                                        !.length_bytes = length_bytes.value,
                                        !.message_length = FromBytesBig(length_bytes.value)]]
                /\ rcvbuf' = [rcvbuf EXCEPT ![p] = Suffix(@, Len(length_bytes.value))]
                /\ UNCHANGED client
    /\ UNCHANGED <<backlog, wire, client_sent,
                   receive_clients_messages_threads, received_client_messages,
                   receive_client_messages_stop_event, acceptVars,
                   ipv4_to_connection, appVars, codecVars, clientVars, messagesVars>>

\* message_bytes = connection.recv(message_length): returns at once when asked
\* for no bytes, and else waits for bytes to arrive, the stream to end or the
\* connection to be reset
RxRecvMessage(p) ==
    /\ rx[p].state = "alive"
    /\ rx[p].pc = "recv_message"
    /\ rx[p].message_length = 0 \/ Readable(p)
    /\ LET message_bytes == Recv(p, rx[p].message_length)
       IN  IF message_bytes.raised # ""
           THEN /\ rx' = [rx EXCEPT ![p] = EndedThread(message_bytes.raised)]
                /\ client' = ErrorReported(p)
                /\ UNCHANGED rcvbuf
           ELSE /\ rx' = [rx EXCEPT ![p] = [@ EXCEPT !.pc = "store",
                                                     !.message_bytes = message_bytes.value]]
                /\ rcvbuf' = [rcvbuf EXCEPT ![p] = Suffix(@, Len(message_bytes.value))]
                /\ UNCHANGED client
    /\ UNCHANGED <<backlog, wire, client_sent,
                   receive_clients_messages_threads, received_client_messages,
                   receive_client_messages_stop_event, acceptVars,
                   ipv4_to_connection, appVars, codecVars, clientVars, messagesVars>>

\* self._received_client_messages[ip].put(message_bytes.decode("UTF-8")): the
\* queue is looked up first, then the bytes are decoded, then the text is put;
\* an exception leaves the thread's target, and the thread ends
RxStore(p) ==
    /\ rx[p].state = "alive"
    /\ rx[p].pc = "store"
    /\ LET text == Utf8Decode(rx[p].message_bytes)
       IN  IF p \notin DOMAIN received_client_messages
           THEN /\ rx' = [rx EXCEPT ![p] = EndedThread("KeyError")]
                /\ UNCHANGED received_client_messages
           ELSE IF text.raised # ""
           THEN /\ rx' = [rx EXCEPT ![p] = EndedThread(text.raised)]
                /\ UNCHANGED received_client_messages
           ELSE /\ rx' = [rx EXCEPT ![p] = StartedThread]
                /\ received_client_messages' =
                       [received_client_messages EXCEPT ![p] = Append(@, text.value)]
    /\ UNCHANGED <<receive_clients_messages_threads, receive_client_messages_stop_event,
                   netVars, acceptVars, ipv4_to_connection, appVars, codecVars, clientVars, messagesVars>>

\* the registered addresses the dict of threads has no thread for, in the
\* order of the registry
MissingThreads(threads, registry) ==
    SelectSeq(registry, LAMBDA ip : ip \notin Keys(threads.keys))

\* Server.listen_for_messages, up to its first Thread.start().  With no dict,
\* the first client's thread is started by _setup_listening_thread_for(...)
\* .start() and then once more by self._receive_clients_messages_threads[ip]
\* .start(): Thread.start() on a started thread raises RuntimeError, which ends
\* the call in the first turn of the loop.  With a dict, the thread of the first
\* client that has none is made and started, and the loop goes on when there
\* are more: the threads started run while it does.
listen_for_messages ==
    /\ app_pc = "idle"
    /\ receive_client_messages_stop_event' = FALSE
    /\ IF receive_clients_messages_threads.none
       THEN IF ipv4_to_connection = <<>>
            THEN /\ receive_clients_messages_threads' = [none |-> FALSE, keys |-> <<>>]
                 /\ ret' = NoCall
                 /\ UNCHANGED <<rx, app_pc>>
            ELSE /\ receive_clients_messages_threads' =
                        [none |-> FALSE, keys |-> <<ipv4_to_connection[1]>>]
                 /\ rx' = [rx EXCEPT ![ipv4_to_connection[1]] = StartedThread]
                 /\ ret' = [Void("listen_for_messages") EXCEPT !.raised = "RuntimeError"]
                 /\ UNCHANGED app_pc
       ELSE LET missing == MissingThreads(receive_clients_messages_threads,
                                          ipv4_to_connection)
            IN  IF missing = <<>>
                THEN /\ ret' = NoCall
                     /\ UNCHANGED <<receive_clients_messages_threads, rx, app_pc>>
                ELSE /\ receive_clients_messages_threads' =
                            [receive_clients_messages_threads EXCEPT
                                 !.keys = Append(@, missing[1])]
                     /\ rx' = [rx EXCEPT ![missing[1]] = StartedThread]
                     /\ IF Len(missing) > 1
                        THEN /\ app_pc' = "start_missing_threads"
                             /\ UNCHANGED ret
                        ELSE /\ ret' = NoCall
                             /\ UNCHANGED app_pc
    /\ UNCHANGED <<received_client_messages, netVars, acceptVars, ipv4_to_connection,
                   new_connections, drained, got, codecVars, clientVars, messagesVars>>

\* listen_for_messages, a later turn of its loop over the registry: the thread
\* of the next client that has none is made and started; after the last one the
\* call returns
StartMissingThread ==
    /\ app_pc = "start_missing_threads"
    /\ LET missing == MissingThreads(receive_clients_messages_threads,
                                     ipv4_to_connection)
       IN  /\ receive_clients_messages_threads' =
                  [receive_clients_messages_threads EXCEPT !.keys = Append(@, missing[1])]
           /\ rx' = [rx EXCEPT ![missing[1]] = StartedThread]
           /\ IF Len(missing) > 1
              THEN UNCHANGED <<app_pc, ret>>
              ELSE /\ app_pc' = "idle"
                   /\ ret' = NoCall
    /\ UNCHANGED <<received_client_messages, receive_client_messages_stop_event,
                   netVars, acceptVars, ipv4_to_connection,
                   new_connections, drained, got, codecVars, clientVars, messagesVars>>

\* Server.stop_listening_for_messages, up to the joins
stop_listening_for_messages ==
    /\ app_pc = "idle"
    /\ IF ~receive_clients_messages_threads.none
       THEN /\ receive_client_messages_stop_event' = TRUE
            /\ app_pc' = "join_clients_messages"
            /\ UNCHANGED ret
       ELSE /\ ret' = NoCall
            /\ UNCHANGED <<receive_client_messages_stop_event, app_pc>>
    /\ UNCHANGED <<receive_clients_messages_threads, rx, received_client_messages,
                   netVars, acceptVars, ipv4_to_connection, new_connections, drained,
                   got, codecVars, clientVars, messagesVars>>

\* every thread.join() has returned: self._receive_clients_messages_threads = None
JoinClientsMessagesThreads ==
    /\ app_pc = "join_clients_messages"
    /\ \A p \in Keys(receive_clients_messages_threads.keys) : rx[p].state = "exited"
    /\ receive_clients_messages_threads' = [none |-> TRUE, keys |-> <<>>]
    /\ rx' = [p \in Peers |-> IF p \in Keys(receive_clients_messages_threads.keys)
                               THEN NoThread ELSE rx[p]]
    /\ app_pc' = "idle"
    /\ ret' = NoCall
    /\ UNCHANGED <<received_client_messages, receive_client_messages_stop_event,
                   netVars, acceptVars, ipv4_to_connection, new_connections, drained,
                   got, codecVars, clientVars, messagesVars>>

\* Server.get_messages_from
get_messages_from(ip) ==
    /\ app_pc = "idle"
    /\ IF ip \notin DOMAIN received_client_messages
       THEN /\ ret' = [Void("get_messages_from") EXCEPT !.raised = "KeyError"]
            /\ UNCHANGED <<received_client_messages, got>>
       ELSE /\ ret' = [Void("get_messages_from") EXCEPT
                           !.value = received_client_messages[ip]]
            /\ got' = [got EXCEPT ![ip] = @ \o received_client_messages[ip]]
            /\ received_client_messages' = [received_client_messages EXCEPT ![ip] = <<>>]
    /\ UNCHANGED <<receive_clients_messages_threads, rx,
                   receive_client_messages_stop_event, netVars, acceptVars,
                   ipv4_to_connection, app_pc, new_connections, drained, codecVars, clientVars, messagesVars>>

\* Server.get_all_messages: a dict with the queue's content for each address
\* that has a queue
get_all_messages ==
    /\ app_pc = "idle"
    /\ ret' = [Void("get_all_messages") EXCEPT !.value = received_client_messages]
    /\ got' = [p \in Peers |-> IF p \in DOMAIN received_client_messages
                               THEN got[p] \o received_client_messages[p]
                               ELSE got[p]]
    /\ received_client_messages' = [ip \in DOMAIN received_client_messages |-> <<>>]
    /\ UNCHANGED <<receive_clients_messages_threads, rx,
                   receive_client_messages_stop_event, netVars, acceptVars,
                   ipv4_to_connection, app_pc, new_connections, drained, codecVars, clientVars, messagesVars>>

(***************************************************************************)
(* Server: sending.  `out` is what the call has written to each client's    *)
(* socket so far, `broken` the set of connections on which socket.sendall   *)
(* raises during the call, `reset` the connections that were reset and have  *)
(* not reported it: on these sendall raises ConnectionResetError, on the     *)
(* others BrokenPipeError.  Only a connection whose client has closed can be *)
(* in `broken`.                                                              *)
(***************************************************************************)
\* the exception of sendall on a connection that refuses the bytes
SendError(ip, reset) ==
    IF ip \in reset THEN "ConnectionResetError" ELSE "BrokenPipeError"

\* an address that is not registered is passed over in silence
SendMessageToUnchecked(registry, out, ip, message, broken, reset) ==
    IF ip \notin Keys(registry) THEN [raised |-> "", out |-> out]
    ELSE IF ip \in broken THEN [raised |-> SendError(ip, reset), out |-> out]
    ELSE [raised |-> "", out |-> [out EXCEPT ![ip] = Append(@, Utf8Encode(message))]]

\* self._ipv4_to_connection[ip].sendall(message.encode("UTF-8")): the exception
\* raised (none: ""), and what has been written to the sockets afterwards
SendMessageTo(registry, out, ip, message, broken, reset) ==
    IF ip \notin Keys(registry) THEN [raised |-> "KeyError", out |-> out]
    ELSE IF ip \in broken THEN [raised |-> SendError(ip, reset), out |-> out]
    ELSE [raised |-> "", out |-> [out EXCEPT ![ip] = Append(@, Utf8Encode(message))]]

\* for ip in self._ipv4_to_connection: self.send_message_to(ip, message), from
\* the i-th address on: the first exception leaves the loop and the call
RECURSIVE SendMessageToAll(_, _, _, _, _, _, _)
SendMessageToAll(registry, out, i, message, broken, reset, attempted) ==
    IF i > Len(registry) THEN [raised |-> "", out |-> out, attempted |-> attempted]
    ELSE LET one == SendMessageTo(registry, out, registry[i], message, broken, reset)
         IN  IF one.raised # ""
             THEN [raised |-> one.raised, out |-> out,
                   attempted |-> Append(attempted, registry[i])]
             ELSE SendMessageToAll(registry, one.out, i + 1, message, broken, reset,
                                   Append(attempted, registry[i]))

\* the connections whose client has closed its end
Closed == {p \in Peers : client[p] \in {"closed", "reset"}}

\* the connections that were reset and have not reported it
Reset == {p \in Peers : client[p] = "reset"}

\* Server.send_message_to
send_message_to(ip, message) ==
    /\ app_pc = "idle"
    /\ \E broken \in SUBSET (Closed \cap {ip}) :
         LET outcome == SendMessageTo(ipv4_to_connection, NoCall.written, ip, message,
                                      broken, Reset)
         IN  /\ ret' = [Void("send_message_to") EXCEPT !.raised = outcome.raised,
                                                       !.written = outcome.out]
             /\ client' = IF outcome.raised = "ConnectionResetError"
                          THEN ErrorReported(ip) ELSE client
    /\ UNCHANGED <<backlog, wire, rcvbuf, client_sent, acceptVars, rxVars,
                   ipv4_to_connection, app_pc,
                   new_connections, drained, got, codecVars, clientVars, messagesVars>>

\* Server.send_message_to_all
send_message_to_all(message) ==
    /\ app_pc = "idle"
    /\ \E broken \in SUBSET (Closed \cap Keys(ipv4_to_connection)) :
         LET outcome == SendMessageToAll(ipv4_to_connection, NoCall.written, 1, message,
                                         broken, Reset, <<>>)
         IN  /\ ret' = [Void("send_message_to_all") EXCEPT !.raised = outcome.raised,
                                                           !.attempted = outcome.attempted,
                                                           !.written = outcome.out]
             /\ client' = IF outcome.raised = "ConnectionResetError"
                          THEN ErrorReported(outcome.attempted[Len(outcome.attempted)])
                          ELSE client
    /\ UNCHANGED <<backlog, wire, rcvbuf, client_sent, acceptVars, rxVars,
                   ipv4_to_connection, app_pc,
                   new_connections, drained, got, codecVars, clientVars, messagesVars>>

(***************************************************************************)
(* The server with its clients.                                            *)
(***************************************************************************)
Next ==
    \/ \E p \in Peers : ClientConnect(p)
    \/ \E p \in Peers, text \in ServerTexts : ClientSend(p, text)
    \/ \E p \in Peers : DeliverSome(p)
    \/ \E p \in Peers : ClientClose(p)
    \/ \E p \in Peers : ClientReset(p)
    \/ AcceptListen
    \/ AcceptCheck
    \/ AcceptConnection
    \/ AcceptTimeout
    \/ listen_for_client_connections
    \/ stop_listening_for_client_connections
    \/ JoinClientRequestsThread
    \/ get_new_client_connections
    \/ GetNewClientConnection
    \/ ReturnNewClientConnections
    \/ \E p \in Peers : RxCheck(p)
    \/ \E p \in Peers : RxTimeout(p)
    \/ \E p \in Peers : RxRecvLength(p)
    \/ \E p \in Peers : RxRecvMessage(p)
    \/ \E p \in Peers : RxStore(p)
    \/ listen_for_messages
    \/ StartMissingThread
    \/ stop_listening_for_messages
    \/ JoinClientsMessagesThreads
    \/ \E ip \in Peers : get_messages_from(ip)
    \/ get_all_messages
    \/ \E ip \in Peers, message \in ServerTexts : send_message_to(ip, message)
    \/ \E message \in ServerTexts : send_message_to_all(message)

Spec == Init /\ [][Next]_vars

\* the threads of the server run: a thread that can take its next step takes it
\* in the end.  Nothing is assumed of the clients and of the network.
ThreadsRun ==
    /\ WF_vars(AcceptListen)
    /\ WF_vars(AcceptCheck)
    /\ WF_vars(AcceptConnection)
    /\ WF_vars(AcceptTimeout)
    /\ WF_vars(JoinClientRequestsThread)
    /\ WF_vars(GetNewClientConnection)
    /\ WF_vars(ReturnNewClientConnections)
    /\ \A p \in Peers : /\ WF_vars(RxCheck(p))
                        /\ WF_vars(RxTimeout(p))
                        /\ WF_vars(RxRecvLength(p))
                        /\ WF_vars(RxRecvMessage(p))
                        /\ WF_vars(RxStore(p))
    /\ WF_vars(StartMissingThread)
    /\ WF_vars(JoinClientsMessagesThreads)

\* The life cycle of the server's threads: every step of the clients, of the
\* network and of the server's threads, and the calls of the application that
\* start, stop or feed a thread.  The sends and the drains of received texts
\* are left out: they start and stop nothing and no thread reads what they
\* write.
NextLifecycle ==
    \/ \E p \in Peers : ClientConnect(p)
    \/ \E p \in Peers, text \in ServerTexts : ClientSend(p, text)
    \/ \E p \in Peers : DeliverSome(p)
    \/ \E p \in Peers : ClientClose(p)
    \/ \E p \in Peers : ClientReset(p)
    \/ AcceptListen
    \/ AcceptCheck
    \/ AcceptConnection
    \/ AcceptTimeout
    \/ listen_for_client_connections
    \/ stop_listening_for_client_connections
    \/ JoinClientRequestsThread
    \/ get_new_client_connections
    \/ GetNewClientConnection
    \/ ReturnNewClientConnections
    \/ \E p \in Peers : RxCheck(p)
    \/ \E p \in Peers : RxTimeout(p)
    \/ \E p \in Peers : RxRecvLength(p)
    \/ \E p \in Peers : RxRecvMessage(p)
    \/ \E p \in Peers : RxStore(p)
    \/ listen_for_messages
    \/ StartMissingThread
    \/ stop_listening_for_messages
    \/ JoinClientsMessagesThreads

SpecLifecycle == Init /\ [][NextLifecycle]_vars /\ ThreadsRun

(***************************************************************************)
(* Properties of the server.                                               *)
(***************************************************************************)
\* the texts in the queue of client p (none when it has no queue)
Queued(p) == IF p \in DOMAIN received_client_messages
             THEN received_client_messages[p] ELSE <<>>

IsPrefixOf(s, t) == Len(s) <= Len(t) /\ SubSeq(t, 1, Len(s)) = s

\* everything client p sent has been read from its connection and no receive
\* loop is part-way through a frame of it
AllRead(p) ==
    /\ client_sent[p] # <<>>
    /\ wire[p] = <<>>
    /\ rcvbuf[p] = <<>>
    /\ rx[p].pc \in {"check", "select"}

\* C1: the texts a registered client sent, once the server has read them from
\* the connection, are in the client's queue or have been returned to the
\* application by get_messages_from or get_all_messages.
EndToEndDelivery ==
    \A p \in Keys(ipv4_to_connection) :
        AllRead(p) => got[p] \o Queued(p) = client_sent[p]

\* C2: listen_for_messages returns without an exception, and when it has
\* returned every registered client has a receive loop: a running one, or one
\* that an exception of its own has ended since it was started.
ListenStartsEveryLoop ==
    [][((listen_for_messages \/ StartMissingThread) /\ app_pc' = "idle") =>
          /\ ret'.raised = ""
          /\ \A p \in Keys(ipv4_to_connection) :
                 /\ rx'[p].state \in {"alive", "exited"}
                 /\ rx'[p].state = "exited" => rx'[p].raised # ""]_vars

\* C3: a receive loop whose read of the header returned no bytes (the client
\* closed the connection) does not go on to read and store a message.
DisconnectEndsLoop ==
    \A p \in Peers :
        ~(/\ rx[p].state = "alive"
          /\ rx[p].pc \in {"recv_message", "store"}
          /\ rx[p].length_bytes = <<>>)

\* C4: get_messages_from for a registered client returns texts, and what it
\* has returned so far is a prefix of what the client sent, in order.
PerPeerOrdering ==
    [][\A ip \in Keys(ipv4_to_connection) :
          get_messages_from(ip) =>
              /\ ret'.raised = ""
              /\ IsPrefixOf(got'[ip], client_sent[ip])]_vars

\* C5: whatever the chunks a frame arrives in, the bytes a receive loop is about
\* to store are the UTF-8 bytes of a text its client sent.
PartialDelivery ==
    \A p \in Peers :
        (rx[p].state = "alive" /\ rx[p].pc = "store" /\ rx[p].length_bytes # <<>>) =>
            \E i \in 1..Len(client_sent[p]) :
                Utf8Decode(rx[p].message_bytes) = Returned(client_sent[p][i])

\* C7: a send_message_to that succeeds writes to the client's socket one frame:
\* the header with the length of the text, then the text.
SendsAreFramed ==
    [][\A ip \in Peers, message \in ServerTexts :
          (send_message_to(ip, message) /\ ret'.raised = "") =>
              ret'.written[ip] = <<prepare_message(message, prepend_bytes_size).value>>]_vars

\* C8: send_message_to_all calls send_message_to for every registered client,
\* also when the send to one of them fails.
SendToAllIsolation ==
    [][\A message \in ServerTexts :
          send_message_to_all(message) =>
              Keys(ret'.attempted) = Keys(ipv4_to_connection)]_vars

\* C9: send_message_to for an address that is not registered raises (KeyError),
\* writes to no socket and leaves the registry, the queue of pending
\* connections and the queues of received texts as they are.
UnknownPeerFails ==
    [][\A ip \in Peers \ Keys(ipv4_to_connection), message \in ServerTexts :
          send_message_to(ip, message) =>
              /\ ret'.raised = "KeyError"
              /\ ret'.written = NoCall.written
              /\ UNCHANGED <<ipv4_to_connection, new_client_requests,
                             received_client_messages>>]_vars

\* a send to an unregistered address has failed while another client is
\* registered
UnknownPeerFailsWitness ==
    /\ ret.op = "send_message_to"
    /\ ret.raised = "KeyError"
    /\ ipv4_to_connection # <<>>

IdempotentAcceptStart ==
    [][(listen_for_client_connections /\ receive_client_requests_thread = "alive") =>
           UNCHANGED <<acceptVars, rxVars, ipv4_to_connection>>]_vars

\* C12: stop_listening_for_client_connections returns in the end, the accept
\* loop's thread has exited when it returns, no step of the call changes the
\* registry, the queue of pending connections, the receive loops, their stop
\* event or the queues of received texts, and with no accept loop running
\* (never started, or stopped before) the call changes nothing of the server.
StopAcceptLoop ==
    /\ [][(app_pc = "join_client_requests" /\ app_pc' = "idle") =>
              receive_client_requests_thread' = "exited"]_vars
    /\ [][(stop_listening_for_client_connections \/ JoinClientRequestsThread) =>
              UNCHANGED <<ipv4_to_connection, new_client_requests, rxVars>>]_vars
    /\ [][((stop_listening_for_client_connections \/ JoinClientRequestsThread)
              /\ receive_client_requests_thread # "alive") =>
              UNCHANGED <<acceptVars, rxVars, ipv4_to_connection, netVars>>]_vars
    /\ (app_pc = "join_client_requests") ~> (app_pc = "idle")

\* the call has returned with the accept loop ended, a client is registered
\* and another connection is waiting in the queue
StopAcceptLoopWitness ==
    /\ app_pc = "idle"
    /\ receive_client_requests_thread = "exited"
    /\ receive_client_requests_stop_event
    /\ ipv4_to_connection # <<>>
    /\ new_client_requests # <<>>

\* C13: when listen_for_client_connections has returned, the accept loop is
\* running (also when the loop was stopped before).
AcceptLoopRestarts ==
    [][listen_for_client_connections => receive_client_requests_thread' = "alive"]_vars

\* C14: stop_listening_for_messages returns in the end.
StopMessagesTerminates ==
    (app_pc = "join_clients_messages") ~> (app_pc = "idle")

\* C15: a step that changes the registry is a turn of the loop of
\* get_new_client_connections; no step of the accept loop and no step of a
\* receive loop changes it.
RegistrySingleWriter ==
    /\ [][ipv4_to_connection' # ipv4_to_connection => GetNewClientConnection]_vars
    /\ [][(\/ AcceptListen \/ AcceptCheck \/ AcceptConnection \/ AcceptTimeout
           \/ \E p \in Peers : \/ RxCheck(p) \/ RxTimeout(p) \/ RxRecvLength(p)
                               \/ RxRecvMessage(p) \/ RxStore(p)) =>
              UNCHANGED ipv4_to_connection]_vars

\* a client is registered, its receive loop runs, and the accept loop has put
\* the next connection in the queue
RegistrySingleWriterWitness ==
    /\ Len(ipv4_to_connection) = 1
    /\ rx[ipv4_to_connection[1]].state = "alive"
    /\ receive_client_requests_thread = "alive"
    /\ new_client_requests # <<>>

(***************************************************************************)
(* TCP.Client: a client whose socket is connected to a server that sends   *)
(* it framed texts.                                                        *)
(***************************************************************************)
\* the server sends the client one text, framed with the client's header width
ServerSendsFrame(text) ==
    /\ ~cl_server_closed
    /\ Len(cl_sent) < MaxClientFrames
    /\ cl_sent' = Append(cl_sent, text)
    /\ cl_wire' = cl_wire \o prepare_message(text, prepend_bytes_size).value
    /\ UNCHANGED <<cl_rcvbuf, cl_receive_messages_thread, cl_rx, cl_received_messages,
                   cl_stop_event, cl_server_closed, cl_ret,
                   codecVars, serverVars, messagesVars>>

\* some of the bytes in flight reach the client's socket
ClientDeliverSome ==
    \E k \in 1..Len(cl_wire) :
        /\ cl_rcvbuf' = cl_rcvbuf \o SubSeq(cl_wire, 1, k)
        /\ cl_wire' = Suffix(cl_wire, k)
        /\ UNCHANGED <<cl_sent, cl_receive_messages_thread, cl_rx, cl_received_messages,
                       cl_stop_event, cl_server_closed, cl_ret,
                       codecVars, serverVars, messagesVars>>

\* the server closes its end of the connection
ServerCloses ==
    /\ ~cl_server_closed
    /\ cl_server_closed' = TRUE
    /\ UNCHANGED <<cl_sent, cl_wire, cl_rcvbuf, cl_receive_messages_thread, cl_rx,
                   cl_received_messages, cl_stop_event, cl_ret,
                   codecVars, serverVars, messagesVars>>

\* the server closed and everything it sent has been read: recv() gives b""
ClientAtEndOfStream == cl_server_closed /\ cl_wire = <<>> /\ cl_rcvbuf = <<>>

\* select.select([self._socket], [], [], timeout) reports the socket
ClientReadable == cl_rcvbuf # <<>> \/ ClientAtEndOfStream

\* self._socket.recv(bufsize): at most bufsize of the bytes that have arrived
ClientRecv(bufsize) == Prefix(cl_rcvbuf, bufsize)

\* Client.receiving_messages
Client_receiving_messages ==
    /\ cl_ret' = IF cl_receive_messages_thread # "None" THEN "True" ELSE "False"
    /\ UNCHANGED <<cl_sent, cl_wire, cl_rcvbuf, cl_receive_messages_thread, cl_rx,
                   cl_received_messages, cl_stop_event, cl_server_closed,
                   codecVars, serverVars, messagesVars>>

\* Client.listen_for_messages: the error of getpeername() is passed over; with no
\* thread, a Thread object is made for _receive_messages and kept.  Its start()
\* is not called.
Client_listen_for_messages ==
    /\ cl_receive_messages_thread' =
           IF cl_receive_messages_thread = "None" THEN "created"
           ELSE cl_receive_messages_thread
    /\ cl_ret' = "None"
    /\ UNCHANGED <<cl_sent, cl_wire, cl_rcvbuf, cl_rx, cl_received_messages,
                   cl_stop_event, cl_server_closed,
                   codecVars, serverVars, messagesVars>>

\* Client._receive_messages: while not self._stop_event.is_set()
ClientRxCheck ==
    /\ cl_receive_messages_thread = "alive"
    /\ cl_rx.pc = "check"
    /\ IF cl_stop_event
       THEN /\ cl_receive_messages_thread' = "exited"
            /\ UNCHANGED cl_rx
       ELSE /\ cl_rx' = [cl_rx EXCEPT !.pc = "select"]
            /\ UNCHANGED cl_receive_messages_thread
    /\ UNCHANGED <<cl_sent, cl_wire, cl_rcvbuf, cl_received_messages, cl_stop_event,
                   cl_server_closed, cl_ret, codecVars, serverVars, messagesVars>>

\* select times out after receive_messages_timeout: nothing to read
ClientRxTimeout ==
    /\ cl_receive_messages_thread = "alive"
    /\ cl_rx.pc = "select"
    /\ ~ClientReadable
    /\ cl_rx' = [cl_rx EXCEPT !.pc = "check"]
    /\ UNCHANGED <<cl_sent, cl_wire, cl_rcvbuf, cl_receive_messages_thread,
                   cl_received_messages, cl_stop_event, cl_server_closed, cl_ret,
                   codecVars, serverVars, messagesVars>>

\* select reports the socket:
\* message_length = int.from_bytes(self._socket.recv(self.prepend_bytes_size), "big")
ClientRxRecvLength ==
    /\ cl_receive_messages_thread = "alive"
    /\ cl_rx.pc = "select"
    /\ ClientReadable
    /\ LET length_bytes == ClientRecv(prepend_bytes_size)
       IN  /\ cl_rx' = [cl_rx EXCEPT !.pc = "recv_message",
                                     !.message_length = FromBytesBig(length_bytes)]
           /\ cl_rcvbuf' = Suffix(cl_rcvbuf, Len(length_bytes))
    /\ UNCHANGED <<cl_sent, cl_wire, cl_receive_messages_thread, cl_received_messages,
                   cl_stop_event, cl_server_closed, cl_ret,
                   codecVars, serverVars, messagesVars>>

\* message_bytes = self._socket.recv(message_length): returns at once when asked
\* for no bytes, and else waits for bytes to arrive or the stream to end
ClientRxRecvMessage ==
    /\ cl_receive_messages_thread = "alive"
    /\ cl_rx.pc = "recv_message"
    /\ cl_rx.message_length = 0 \/ ClientReadable
    /\ LET message_bytes == ClientRecv(cl_rx.message_length)
       IN  /\ cl_rx' = [cl_rx EXCEPT !.pc = "store", !.message_bytes = message_bytes]
           /\ cl_rcvbuf' = Suffix(cl_rcvbuf, Len(message_bytes))
    /\ UNCHANGED <<cl_sent, cl_wire, cl_receive_messages_thread, cl_received_messages,
                   cl_stop_event, cl_server_closed, cl_ret,
                   codecVars, serverVars, messagesVars>>

\* self._received_messages.put(message_bytes.decode("UTF-8")): an exception of
\* the decoding leaves the thread's target, and the thread ends
ClientRxStore ==
    /\ cl_receive_messages_thread = "alive"
    /\ cl_rx.pc = "store"
    /\ LET text == Utf8Decode(cl_rx.message_bytes)
       IN  IF text.raised # ""
           THEN /\ cl_receive_messages_thread' = "exited"
                /\ cl_rx' = [NoTurn EXCEPT !.raised = text.raised]
                /\ UNCHANGED cl_received_messages
           ELSE /\ cl_received_messages' = Append(cl_received_messages, text.value)
                /\ cl_rx' = NoTurn
                /\ UNCHANGED cl_receive_messages_thread
    /\ UNCHANGED <<cl_sent, cl_wire, cl_rcvbuf, cl_stop_event, cl_server_closed, cl_ret,
                   codecVars, serverVars, messagesVars>>

\* Client._receive_messages, a step of it.  It is the target of the thread, and
\* a thread that was never started takes no step: no behaviour of the client
\* has one of these steps.
Client_receive_messages ==
    \/ ClientRxCheck
    \/ ClientRxTimeout
    \/ ClientRxRecvLength
    \/ ClientRxRecvMessage
    \/ ClientRxStore

ClientNext ==
    \/ \E text \in SomeTexts : ServerSendsFrame(text)
    \/ ClientDeliverSome
    \/ ServerCloses
    \/ Client_receiving_messages
    \/ Client_listen_for_messages

SpecClient == Init /\ [][ClientNext]_vars

\* C16: a listen_for_messages of a client with no receive loop leaves the
\* client with a running receive loop.
ClientListenStartsLoop ==
    [][(Client_listen_for_messages /\ cl_receive_messages_thread = "None") =>
           cl_receive_messages_thread' = "alive"]_vars

(***************************************************************************)
(* UDP.Messages: a datagram endpoint, the endpoints that send to it and    *)
(* the application that owns it.                                           *)
(***************************************************************************)
Ports == 1..MaxPort

\* the texts sent to the endpoint
SomeDatagrams == SomeTexts \cup {<<97, 97>>}

\* a call of op by the application
MessagesCall(op) == [NoMessagesCall EXCEPT !.op = op]

\* the thread ended: by returning, or by the exception that left its target
EndedLoop(e) == [NoLoop EXCEPT !.state = "exited", !.raised = e]

\* the endpoint at address a sends the text; the datagram reaches the socket
DatagramArrives(a, text) ==
    /\ m_socket = "open"
    /\ Len(m_sent) < MaxDatagrams
    /\ m_inbox' = Append(m_inbox, [payload |-> Utf8Encode(text), address |-> a])
    /\ m_sent' = Append(m_sent, [message |-> text, address |-> a])
    /\ UNCHANGED <<m_port, m_socket, messagesThreads, m_received_messages,
                   messagesApp, codecVars, serverVars, clientVars>>

\* socket.recvfrom(bufsize) of a datagram socket, what it may give for the
\* datagram: the payload; for a payload longer than bufsize the first bufsize
\* bytes (the rest is discarded), or where the platform reports the excess,
\* OSError
RecvFrom(datagram, bufsize) ==
    IF Len(datagram.payload) <= bufsize THEN {Returned(datagram.payload)}
    ELSE {Returned(Prefix(datagram.payload, bufsize)), Raised("OSError")}

\* _receive_messages: while not stop_event.is_set()
MessagesCheck(t) ==
    /\ m_threads[t].state = "alive"
    /\ m_threads[t].pc = "check"
    /\ m_threads' = [m_threads EXCEPT ![t] = IF m_stop_event THEN EndedLoop("")
                                             ELSE [@ EXCEPT !.pc = "select"]]
    /\ UNCHANGED <<messagesNet, m_receive_messages_thread, m_stop_event,
                   m_received_messages, messagesApp, codecVars, serverVars,
                   clientVars>>

\* select times out after receive_messages_timeout: no datagram
MessagesTimeout(t) ==
    /\ m_threads[t].state = "alive"
    /\ m_threads[t].pc = "select"
    /\ m_socket = "open"
    /\ m_inbox = <<>>
    /\ m_threads' = [m_threads EXCEPT ![t].pc = "check"]
    /\ UNCHANGED <<messagesNet, m_receive_messages_thread, m_stop_event,
                   m_received_messages, messagesApp, codecVars, serverVars,
                   clientVars>>

\* select.select on a closed socket raises ValueError (its file descriptor is
\* -1), which leaves the thread's target
MessagesSelectFails(t) ==
    /\ m_threads[t].state = "alive"
    /\ m_threads[t].pc = "select"
    /\ m_socket = "closed"
    /\ m_threads' = [m_threads EXCEPT ![t] = EndedLoop("ValueError")]
    /\ UNCHANGED <<messagesNet, m_receive_messages_thread, m_stop_event,
                   m_received_messages, messagesApp, codecVars, serverVars,
                   clientVars>>

\* select reports the socket: recvfrom(self.port), decode, put
MessagesReceive(t) ==
    /\ m_threads[t].state = "alive"
    /\ m_threads[t].pc = "select"
    /\ m_socket = "open"
    /\ m_inbox # <<>>
    /\ \E message_bytes \in RecvFrom(Head(m_inbox), m_port) :
         LET message == IF message_bytes.raised # "" THEN message_bytes
                        ELSE Utf8Decode(message_bytes.value)
         IN  IF message.raised # ""
             THEN /\ m_threads' = [m_threads EXCEPT ![t] = EndedLoop(message.raised)]
                  /\ UNCHANGED m_received_messages
             ELSE /\ m_threads' = [m_threads EXCEPT ![t].pc = "check"]
                  /\ m_received_messages' =
                         Append(m_received_messages,
                                [message |-> message.value,
                                 address |-> Head(m_inbox).address])
    /\ m_inbox' = Tail(m_inbox)
    /\ UNCHANGED <<m_port, m_socket, m_sent, m_receive_messages_thread,
                   m_stop_event, messagesApp, codecVars, serverVars, clientVars>>

\* Messages.thread_stopped
Messages_thread_stopped ==
    /\ m_app_pc = "idle"
    /\ m_ret' = IF m_receive_messages_thread = 0
                THEN [MessagesCall("thread_stopped") EXCEPT !.raised = "AttributeError"]
                ELSE [MessagesCall("thread_stopped") EXCEPT !.flag =
                         IF m_threads[m_receive_messages_thread].state = "alive"
                         THEN "False" ELSE "True"]
    /\ UNCHANGED <<messagesNet, messagesThreads, m_received_messages, m_app_pc,
                   m_messages, m_got, codecVars, serverVars, clientVars>>

\* a thread is started by every call
listen_for_messages_always ==
    /\ m_app_pc = "idle"
    /\ \E t \in 1..MaxThreads :
         /\ m_threads[t].state = "absent"
         /\ \A u \in 1..(t - 1) : m_threads[u].state # "absent"
         /\ m_receive_messages_thread' = t
         /\ m_threads' = [m_threads EXCEPT ![t] = [NoLoop EXCEPT !.state = "alive"]]
    /\ m_ret' = MessagesCall("listen_for_messages")
    /\ UNCHANGED <<messagesNet, m_stop_event, m_received_messages, m_app_pc,
                   m_messages, m_got, codecVars, serverVars, clientVars>>

\* Messages.listen_for_messages: with no thread, a new thread is made and
\* started (the next of the MaxThreads the endpoint may make)
Messages_listen_for_messages ==
    /\ m_app_pc = "idle"
    /\ IF m_receive_messages_thread = 0
       THEN \E t \in 1..MaxThreads :
              /\ m_threads[t].state = "absent"
              /\ \A u \in 1..(t - 1) : m_threads[u].state # "absent"
              /\ m_receive_messages_thread' = t
              /\ m_threads' = [m_threads EXCEPT ![t] = [NoLoop EXCEPT !.state = "alive"]]
       ELSE UNCHANGED <<m_receive_messages_thread, m_threads>>
    /\ m_ret' = MessagesCall("listen_for_messages")
    /\ UNCHANGED <<messagesNet, m_stop_event, m_received_messages, m_app_pc,
                   m_messages, m_got, codecVars, serverVars, clientVars>>

\* Messages.get_messages: messages = []
Messages_get_messages ==
    /\ m_app_pc = "idle"
    /\ m_app_pc' = "get_messages"
    /\ m_messages' = <<>>
    /\ UNCHANGED <<messagesNet, messagesThreads, m_received_messages, m_ret, m_got,
                   codecVars, serverVars, clientVars>>

\* the loop of get_messages takes the newest entry of the queue
MessagesGetNewest ==
    /\ m_app_pc = "get_messages"
    /\ m_received_messages # <<>>
    /\ m_messages' = Append(m_messages, m_received_messages[Len(m_received_messages)])
    /\ m_received_messages' = SubSeq(m_received_messages, 1, Len(m_received_messages) - 1)
    /\ UNCHANGED <<messagesNet, messagesThreads, m_app_pc, m_ret, m_got,
                   codecVars, serverVars, clientVars>>

\* one turn of its loop: messages.append(self._received_messages.get())
MessagesGetMessage ==
    /\ m_app_pc = "get_messages"
    /\ m_received_messages # <<>>
    /\ m_messages' = Append(m_messages, Head(m_received_messages))
    /\ m_received_messages' = Tail(m_received_messages)
    /\ UNCHANGED <<messagesNet, messagesThreads, m_app_pc, m_ret, m_got,
                   codecVars, serverVars, clientVars>>

\* the queue is empty: return messages
MessagesReturnMessages ==
    /\ m_app_pc = "get_messages"
    /\ m_received_messages = <<>>
    /\ m_app_pc' = "idle"
    /\ m_ret' = [MessagesCall("get_messages") EXCEPT !.value = m_messages]
    /\ m_got' = m_got \o m_messages
    /\ m_messages' = <<>>
    /\ UNCHANGED <<messagesNet, messagesThreads, m_received_messages,
                   codecVars, serverVars, clientVars>>

\* Messages.send_message: one datagram with the encoded text and no header;
\* sendto on a closed socket raises OSError
Messages_send_message(message) ==
    /\ m_app_pc = "idle"
    /\ m_ret' = IF m_socket = "closed"
                THEN [MessagesCall("send_message") EXCEPT !.raised = "OSError"]
                ELSE [MessagesCall("send_message") EXCEPT
                         !.written = <<Utf8Encode(message)>>]
    /\ UNCHANGED <<messagesNet, messagesThreads, m_received_messages, m_app_pc,
                   m_messages, m_got, codecVars, serverVars, clientVars>>

\* Messages.stop_listening_for_messages, up to the join
Messages_stop_listening_for_messages ==
    /\ m_app_pc = "idle"
    /\ IF m_receive_messages_thread # 0
       THEN /\ m_stop_event' = TRUE
            /\ m_app_pc' = "join"
            /\ UNCHANGED m_ret
       ELSE /\ m_ret' = MessagesCall("stop_listening_for_messages")
            /\ UNCHANGED <<m_stop_event, m_app_pc>>
    /\ UNCHANGED <<messagesNet, m_receive_messages_thread, m_threads,
                   m_received_messages, m_messages, m_got, codecVars, serverVars,
                   clientVars>>

\* the call does not wait for the thread
JoinWithoutWaiting ==
    /\ m_app_pc = "join"
    /\ m_receive_messages_thread' = 0
    /\ m_app_pc' = "idle"
    /\ m_ret' = MessagesCall("stop_listening_for_messages")
    /\ UNCHANGED <<messagesNet, m_threads, m_stop_event, m_received_messages,
                   m_messages, m_got, codecVars, serverVars, clientVars>>

\* self._receive_messages_thread.join() returns: the handle is set to None
MessagesJoin ==
    /\ m_app_pc = "join"
    /\ m_threads[m_receive_messages_thread].state = "exited"
    /\ m_receive_messages_thread' = 0
    /\ m_app_pc' = "idle"
    /\ m_ret' = MessagesCall("stop_listening_for_messages")
    /\ UNCHANGED <<messagesNet, m_threads, m_stop_event, m_received_messages,
                   m_messages, m_got, codecVars, serverVars, clientVars>>

\* Messages.close_socket: the datagrams the socket holds go with it
Messages_close_socket ==
    /\ m_app_pc = "idle"
    /\ IF m_receive_messages_thread # 0
       THEN /\ m_ret' = [MessagesCall("close_socket") EXCEPT !.raised = "RuntimeError"]
            /\ UNCHANGED <<m_socket, m_inbox>>
       ELSE /\ m_socket' = "closed"
            /\ m_inbox' = <<>>
            /\ m_ret' = MessagesCall("close_socket")
    /\ UNCHANGED <<m_port, m_sent, messagesThreads, m_received_messages, m_app_pc,
                   m_messages, m_got, codecVars, serverVars, clientVars>>

MessagesNext ==
    \/ \E a \in Peers, text \in SomeDatagrams : DatagramArrives(a, text)
    \/ \E t \in 1..MaxThreads : MessagesCheck(t)
    \/ \E t \in 1..MaxThreads : MessagesTimeout(t)
    \/ \E t \in 1..MaxThreads : MessagesSelectFails(t)
    \/ \E t \in 1..MaxThreads : MessagesReceive(t)
    \/ Messages_thread_stopped
    \/ Messages_listen_for_messages
    \/ Messages_get_messages
    \/ MessagesGetMessage
    \/ MessagesReturnMessages
    \/ \E message \in SomeTexts : Messages_send_message(message)
    \/ Messages_stop_listening_for_messages
    \/ MessagesJoin
    \/ Messages_close_socket

\* the threads of the endpoint and of its application run
MessagesThreadsRun ==
    /\ \A t \in 1..MaxThreads : /\ WF_vars(MessagesCheck(t))
                                /\ WF_vars(MessagesTimeout(t))
                                /\ WF_vars(MessagesSelectFails(t))
                                /\ WF_vars(MessagesReceive(t))
    /\ WF_vars(MessagesGetMessage)
    /\ WF_vars(MessagesReturnMessages)
    /\ WF_vars(MessagesJoin)

\* an endpoint bound to some port
MessagesSpecInit ==
    /\ \E port \in Ports : MessagesInit(port)
    /\ ServerInit
    /\ CodecIdle
    /\ ClientInit

SpecMessages == MessagesSpecInit /\ [][MessagesNext]_vars /\ MessagesThreadsRun

\* the receive loop threads of the endpoint that are alive
LiveLoops == {t \in 1..MaxThreads : m_threads[t].state = "alive"}

\* C17: at most one receive loop thread of the endpoint is alive, and a
\* listen_for_messages made while a loop is attached changes nothing of the
\* endpoint.
OneReceiveLoop ==
    /\ [](Cardinality(LiveLoops) <= 1)
    /\ [][(Messages_listen_for_messages /\ m_receive_messages_thread # 0) =>
              UNCHANGED <<messagesNet, messagesThreads, m_received_messages,
                          m_app_pc, m_messages, m_got>>]_vars

\* the loop was stopped and started again: the first thread has ended, the
\* second is attached and alive, and listen_for_messages was the last call
OneReceiveLoopWitness ==
    /\ m_ret.op = "listen_for_messages"
    /\ m_threads[1].state = "exited"
    /\ m_receive_messages_thread = 2
    /\ m_threads[2].state = "alive"

\* C18: stop_listening_for_messages returns in the end; when it returns no
\* receive loop thread is alive and none is attached; no step of it takes a
\* message from the queue; and with no loop attached (never started, or
\* stopped before) it changes nothing of the endpoint.
StopReceiveLoop ==
    /\ [][(m_app_pc = "join" /\ m_app_pc' = "idle") =>
              (LiveLoops' = {} /\ m_receive_messages_thread' = 0)]_vars
    /\ [][(Messages_stop_listening_for_messages \/ MessagesJoin) =>
              UNCHANGED <<m_received_messages, m_got, messagesNet>>]_vars
    /\ [][(Messages_stop_listening_for_messages /\ m_receive_messages_thread = 0) =>
              UNCHANGED <<messagesNet, messagesThreads, m_received_messages,
                          m_app_pc, m_messages, m_got>>]_vars
    /\ (m_app_pc = "join") ~> (m_app_pc = "idle")

\* the call has returned: the thread has ended, none is attached, and a
\* message received before is still in the queue
StopReceiveLoopWitness ==
    /\ m_ret.op = "stop_listening_for_messages"
    /\ m_threads[1].state = "exited"
    /\ m_receive_messages_thread = 0
    /\ m_received_messages # <<>>

\* C19: while a loop is attached and the application is not inside
\* stop_listening_for_messages, the loop's thread is running, unless an
\* exception ended it: also after a stop and a new listen_for_messages.
RestartKeepsListening ==
    (/\ m_app_pc = "idle"
     /\ m_receive_messages_thread # 0
     /\ m_threads[m_receive_messages_thread].raised = "") =>
        m_threads[m_receive_messages_thread].state = "alive"

\* C20: the socket is never closed while a receive loop thread is alive.
NoLoopOnClosedSocket ==
    m_socket = "closed" => LiveLoops = {}

\* the entries the receive loop has put in the queue so far, in the order of
\* the puts: those returned by get_messages, those the running get_messages has
\* taken, those in the queue
Delivered == m_got \o m_messages \o m_received_messages

\* C21: the entries returned by the calls of get_messages, then those the
\* running call has taken, then those in the queue are the entries the receive
\* loop has put, in the order of the puts, each once: only a receive of the
\* loop changes this sequence, by adding at its end the message read with the
\* address it came from.  get_messages returns what it has taken when the
\* queue is empty.
DatagramDrain ==
    /\ [][\/ Delivered' = Delivered
          \/ \E t \in 1..MaxThreads :
               /\ MessagesReceive(t)
               /\ \E message_bytes \in RecvFrom(Head(m_inbox), m_port) :
                    /\ message_bytes.raised = ""
                    /\ Utf8Decode(message_bytes.value).raised = ""
                    /\ Delivered' =
                           Append(Delivered,
                                  [message |-> Utf8Decode(message_bytes.value).value,
                                   address |-> Head(m_inbox).address])]_vars
    /\ [][MessagesReturnMessages =>
              /\ m_ret'.value = m_messages
              /\ m_got' = m_got \o m_ret'.value
              /\ m_received_messages' = <<>>]_vars

\* two datagrams from two addresses were received and returned by two calls
\* of get_messages, one each
DatagramDrainWitness ==
    /\ m_ret.op = "get_messages"
    /\ Len(m_ret.value) = 1
    /\ Len(m_got) = 2
    /\ m_got[1].address # m_got[2].address
    /\ m_got[2] = m_ret.value[1]

(***************************************************************************)
(* Server: what it tells of its accept loop.                               *)
(***************************************************************************)
\* Server.receiving_client_connections
receiving_client_connections == receive_client_requests_thread # "None"

\* C22: between the calls of the application, receiving_client_connections is
\* True exactly when the accept loop's thread is running.
StatusTellsRunning ==
    app_pc = "idle" =>
        (receiving_client_connections <=> receive_client_requests_thread = "alive")

\* C23: when an exception ends the receive loop of one client (one of recv, a
\* reset connection, or one of storing the message), the threads of
\* the other clients and the accept loop are as they were, and the server has
\* given up the client's connection: it is no longer in the registry, the only
\* record the server keeps of the connections it sends to and listens on.
LoopErrorIsolation ==
    [][\A p \in Peers :
          ((RxRecvLength(p) \/ RxRecvMessage(p) \/ RxStore(p)) /\ rx'[p].raised # "") =>
              /\ \A q \in Peers \ {p} : rx'[q] = rx[q]
              /\ UNCHANGED <<receive_client_requests_thread, accept_pc>>
              /\ p \notin Keys(ipv4_to_connection')]_vars

\* C24: the message the receive loop puts in the queue for a datagram is the
\* whole text that was sent, never a part of it.
NoSilentTruncation ==
    [][\A t \in 1..MaxThreads :
          (MessagesReceive(t) /\ m_received_messages' # m_received_messages) =>
              Utf8Encode(m_received_messages'[Len(m_received_messages')].message)
                  = Head(m_inbox).payload]_vars

(***************************************************************************)
(* Server: two threads of the application.  While one is inside a call,    *)
(* another calls listen_for_client_connections.                            *)
(***************************************************************************)
\* Server.listen_for_client_connections, called by a second thread of the
\* application while the first is inside a call
listen_for_client_connections_concurrently ==
    /\ app_pc # "idle"
    /\ receive_client_messages_stop_event' = FALSE
    /\ IF receive_client_requests_thread = "None"
       THEN /\ receive_client_requests_thread' = "alive"
            /\ accept_pc' = "listen"
       ELSE UNCHANGED <<receive_client_requests_thread, accept_pc>>
    /\ UNCHANGED <<listening, new_client_requests, receive_client_requests_stop_event,
                   accepted, receive_clients_messages_threads, rx,
                   received_client_messages, netVars, ipv4_to_connection,
                   appVars, codecVars, clientVars, messagesVars>>

NextTwoCallers ==
    \/ NextLifecycle
    \/ listen_for_client_connections_concurrently

SpecTwoCallers == Init /\ [][NextTwoCallers]_vars /\ ThreadsRun

\* C25: while stop_listening_for_messages waits for a receive loop that is
\* still running, the stop event it has set stays set, whatever
\* listen_for_client_connections another thread calls.
StopSignalStays ==
    [][(/\ app_pc = "join_clients_messages"
        /\ app_pc' = "join_clients_messages"
        /\ \E p \in Peers : rx[p].state = "alive") =>
           receive_client_messages_stop_event' = TRUE]_vars

(***************************************************************************)
(* The codec as a state machine: a text and a header width are chosen,     *)
(* prepare_message frames the text, read_message_length reads the frame.   *)
(***************************************************************************)
CodecInit ==
    /\ c_message \in Texts
    /\ c_prepend \in 0..MaxHeader
    /\ c_step = "start"
    /\ c_frame = Returned(<<>>)
    /\ c_length = 0
    /\ ServerInit
    /\ ClientInit
    /\ MessagesInit(MaxPort)

CallPrepareMessage ==
    /\ c_step = "start"
    /\ c_frame' = prepare_message(c_message, c_prepend)
    /\ c_step' = "prepared"
    /\ UNCHANGED <<c_message, c_prepend, c_length, serverVars, clientVars, messagesVars>>

CallReadMessageLength ==
    /\ c_step = "prepared"
    /\ c_frame.raised = ""
    /\ c_length' = read_message_length(c_frame.value, c_prepend)
    /\ c_step' = "read"
    /\ UNCHANGED <<c_message, c_prepend, c_frame, serverVars, clientVars, messagesVars>>

CodecNext == CallPrepareMessage \/ CallReadMessageLength

SpecCodec == CodecInit /\ [][CodecNext]_vars

\* C6: a text whose UTF-8 length fits the header is framed as header plus
\* payload, the frame's length field reads back as the payload's byte length,
\* and the bytes after the header decode to the text.
CodecRoundTrip ==
    LET n == Len(Utf8Encode(c_message))
    IN  (n < Pow(256, c_prepend) /\ c_step # "start") =>
            /\ c_frame.raised = ""
            /\ Len(c_frame.value) = c_prepend + n
            /\ Utf8Decode(Suffix(c_frame.value, c_prepend)) = Returned(c_message)
            /\ c_step = "read" => c_length = n

\* a text with multi-byte characters has been framed and its length read back
CodecRoundTripWitness ==
    /\ c_message = <<233, 97, 8364>>
    /\ c_prepend = 2
    /\ c_step = "read"
    /\ c_length = 6

====
